---------------------------- MODULE Spec2Model ----------------------------
(***************************************************************************)
(* Video_To_Gif: the /converter/video-to-gif handler (src/app.py) and the  *)
(* ImgBB upload service (src/services/image_service.py).                   *)
(*                                                                         *)
(* Four state machines share this module, each with its own specification: *)
(*   SpecRemove   safe_remove, one loop iteration per step                 *)
(*   SpecConvert  convert_video_to_gif, one statement group per step       *)
(*   SpecUpload   ImageService.upload_image                                *)
(*   Spec         VideoToGif.post, several requests interleaved            *)
(* A specification leaves the variables of the other machines unchanged.   *)
(***************************************************************************)
EXTENDS Integers, Sequences, FiniteSets, TLC

VARIABLES
    sr,       \* safe_remove: the locals of one call
    cv,       \* convert_video_to_gif: the locals of one call
    up,       \* upload_image: the collaborator's answer and the returned dict
    req,      \* post: per request, the handler's locals and its response
    fs,       \* the filesystem under uploads/ and outputs/: path -> writer
    foreign   \* TRUE once a request touched a file another request wrote

vars == <<sr, cv, up, req, fs, foreign>>

Max(a, b) == IF a >= b THEN a ELSE b
Min(a, b) == IF a <= b THEN a ELSE b

(***************************************************************************)
(* safe_remove(file_path, retries=3, delay=0.5)             app.py 31-43   *)
(***************************************************************************)
MaxRetries == 4          \* retries is drawn from 0..MaxRetries
MaxDelay == 2            \* delay is drawn from 0..MaxDelay (half seconds)
DefaultRetries == 3      \* the handler calls safe_remove(path): retries=3
DefaultDelay == 1        \* delay=0.5 s, one half second

\* What one pass through the try block meets: os.path.exists is False
\* ("absent"), os.remove succeeds ("removed"), os.remove raises OSError with
\* errno EACCES ("EACCES") or with another errno ("EOTHER").
AttemptOutcomes == {"absent", "removed", "EACCES", "EOTHER"}

\* The outcomes the filesystem can give when the file is / is not there.
OutcomesFor(exists) ==
    IF exists THEN {"removed", "EACCES", "EOTHER"} ELSE {"absent"}

SrIdle ==
    [ret |-> "idle", retries |-> 0, delay |-> 0, attempt |-> 0, attempts |-> 0,
     eacces |-> 0, sleeps |-> 0, slept |-> 0, last |-> "none", exists |-> FALSE]

\* The locals at the call: nothing attempted yet.
SrCall(exists, retries, delay) ==
    [SrIdle EXCEPT !.ret = "running", !.retries = retries, !.delay = delay,
                   !.exists = exists]

\* A plausible slip: the guard of line 41 dropped, so the loop also sleeps
\* after the last attempt.
SafeRemoveStepSleepLast(s, o) ==
    IF s.attempt >= s.retries
    THEN [s EXCEPT !.ret = "False"]
    ELSE CASE o = "absent" ->
                [s EXCEPT !.ret = "True", !.attempts = @ + 1, !.last = o,
                          !.exists = FALSE]
           [] o = "removed" ->
                [s EXCEPT !.ret = "True", !.attempts = @ + 1, !.last = o,
                          !.exists = FALSE]
           [] o = "EOTHER" ->
                [s EXCEPT !.ret = "raise", !.attempts = @ + 1, !.last = o]
           [] OTHER ->
                [s EXCEPT !.attempt = @ + 1, !.attempts = @ + 1, !.last = o,
                          !.eacces = @ + 1,
                          !.sleeps = @ + 1,
                          !.slept = @ + s.delay,
                          !.ret = IF s.attempt + 1 >= s.retries
                                  THEN "False" ELSE "running"]

\* One iteration of `for attempt in range(retries)` meeting outcome o; the
\* `return False` of line 43 is taken in the step that ends the range.
SafeRemoveStep(s, o) ==
    IF s.attempt >= s.retries
    THEN [s EXCEPT !.ret = "False"]                       \* empty range
    ELSE CASE o = "absent" ->                             \* line 35 False, 37
                [s EXCEPT !.ret = "True", !.attempts = @ + 1, !.last = o,
                          !.exists = FALSE]
           [] o = "removed" ->                            \* lines 36-37
                [s EXCEPT !.ret = "True", !.attempts = @ + 1, !.last = o,
                          !.exists = FALSE]
           [] o = "EOTHER" ->                             \* lines 39-40
                [s EXCEPT !.ret = "raise", !.attempts = @ + 1, !.last = o]
           [] OTHER ->                                    \* EACCES, 41-42
                [s EXCEPT !.attempt = @ + 1, !.attempts = @ + 1, !.last = o,
                          !.eacces = @ + 1,
                          !.sleeps = IF s.attempt < s.retries - 1
                                     THEN @ + 1 ELSE @,
                          !.slept = IF s.attempt < s.retries - 1
                                    THEN @ + s.delay ELSE @,
                          !.ret = IF s.attempt + 1 >= s.retries
                                  THEN "False" ELSE "running"]

\* The whole call: outs[k] is what the k-th attempt meets.
RECURSIVE SafeRemoveRun(_, _)
SafeRemoveRun(s, outs) ==
    IF s.ret # "running" THEN s
    ELSE SafeRemoveRun(SafeRemoveStep(s, outs[Min(s.attempt + 1, Len(outs))]),
                       outs)

\* ---- the safe_remove machine -------------------------------------------
SrStart ==
    /\ sr.ret = "idle"
    /\ \E exists \in BOOLEAN, retries \in 0..MaxRetries, delay \in 0..MaxDelay :
          sr' = SrCall(exists, retries, delay)
    /\ UNCHANGED <<cv, up, req, fs, foreign>>

\* Another process may remove the file between two attempts, so a file that
\* was there can be met absent; one that is gone stays gone.
SrAttempt ==
    /\ sr.ret = "running"
    /\ \E o \in (IF sr.exists THEN AttemptOutcomes ELSE {"absent"}) :
          sr' = SafeRemoveStep(sr, o)
    /\ UNCHANGED <<cv, up, req, fs, foreign>>

\* The caller has the result; the next call starts from fresh locals.
SrReturn ==
    /\ sr.ret \in {"True", "False", "raise"}
    /\ sr' = SrIdle
    /\ UNCHANGED <<cv, up, req, fs, foreign>>

(***************************************************************************)
(* convert_video_to_gif(input_path, output_path, fps, scale) app.py 54-112 *)
(***************************************************************************)
MaxFps == 12             \* fps is drawn from 1..MaxFps
MaxFrames == 6           \* the source yields 0..MaxFrames frames
MaxGifSize == 2          \* an encoded GIF has size 1..MaxGifSize

\* cap.get(cv2.CAP_PROP_FPS) as an exact fraction <<numerator, denominator>>:
\* 0 when the container does not say, NTSC rates 24000/1001 and 30000/1001.
NativeRates ==
    {<<0, 1>>, <<-1, 1>>, <<10, 1>>, <<15, 1>>, <<24000, 1001>>, <<25, 1>>,
     <<30000, 1001>>, <<30, 1>>, <<60, 1>>}

\* Lines 63-64: a rate that is not positive is replaced by 30.
OriginalFps(native) == IF native[1] <= 0 THEN <<30, 1>> ELSE native

\* Python's round() of the positive fraction n/d: to the nearest integer,
\* a tie to the even one.
PyRound(n, d) ==
    LET q == n \div d
        r == n % d
    IN  IF 2 * r < d THEN q
        ELSE IF 2 * r > d THEN q + 1
        ELSE IF q % 2 = 0 THEN q ELSE q + 1

\* A plausible slip: the step rounded to the nearest integer.
FrameStepRounded(original_fps, fps) ==
    Max(1, PyRound(original_fps[1], original_fps[2] * fps))

\* Line 67: frame_step = max(1, int(original_fps / fps)); int() truncates,
\* and both operands are positive here.
FrameStep(original_fps, fps) ==
    Max(1, original_fps[1] \div (original_fps[2] * fps))

\* A plausible slip: the sampling test off by one.
SampledOffByOne(frame_count, frame_step) == (frame_count + 1) % frame_step = 0

\* Line 77: frame_count % frame_step == 0.
Sampled(frame_count, frame_step) == frame_count % frame_step = 0

CvIdle ==
    [pc |-> "idle", native |-> <<0, 1>>, original_fps |-> <<0, 1>>, fps |-> 0,
     total |-> 0, cap |-> "unbound", frame_step |-> 0, frame_count |-> 0,
     frames |-> <<>>, ret |-> "none", gif |-> "none", gif_size |-> 0,
     saves |-> 0, raised |-> FALSE, usedAfterRelease |-> FALSE]

\* A call: the handler passes fps > 0 (line 139); the file at input_path
\* decides the native rate and how many frames cap.read() yields.
CvCall ==
    /\ cv.pc = "idle"
    /\ \E fps \in 1..MaxFps, total \in 0..MaxFrames, native \in NativeRates :
          cv' = [CvIdle EXCEPT !.pc = "open", !.fps = fps, !.total = total,
                               !.native = native]
    /\ UNCHANGED <<sr, up, req, fs, foreign>>

\* Lines 57-59: cv2.VideoCapture(input_path) raises (cap stays unbound), or
\* gives a capture that is or is not opened.
CvOpen ==
    /\ cv.pc = "open"
    /\ \E o \in {"opened", "closed", "raise"} :
          cv' = CASE o = "opened" -> [cv EXCEPT !.cap = "open", !.pc = "getfps"]
                  [] o = "closed" -> [cv EXCEPT !.cap = "closed",
                                                !.ret = "could_not_open",
                                                !.pc = "finally"]
                  [] OTHER -> [cv EXCEPT !.raised = TRUE, !.pc = "except"]
    /\ UNCHANGED <<sr, up, req, fs, foreign>>

\* Lines 62-67.
CvFrameStep ==
    /\ cv.pc = "getfps"
    /\ cv' = [cv EXCEPT !.original_fps = OriginalFps(cv.native),
                        !.frame_step = FrameStep(OriginalFps(cv.native), cv.fps),
                        !.usedAfterRelease = @ \/ cv.cap = "released",
                        !.pc = "read"]
    /\ UNCHANGED <<sr, up, req, fs, foreign>>

\* Lines 72-86, one iteration: cap.read(), then resize, cvtColor and
\* fromarray of a sampled frame, any of which may raise.
CvRead ==
    /\ cv.pc = "read"
    /\ \/ /\ cv.frame_count < cv.total
          /\ \E o \in {"ok", "raise"} :
                cv' = IF o = "raise"
                      THEN [cv EXCEPT !.raised = TRUE, !.pc = "except",
                              !.usedAfterRelease = @ \/ cv.cap = "released"]
                      ELSE [cv EXCEPT
                              !.frames = IF Sampled(cv.frame_count, cv.frame_step)
                                         THEN Append(@, cv.frame_count) ELSE @,
                              !.frame_count = @ + 1,
                              !.usedAfterRelease = @ \/ cv.cap = "released"]
       \/ /\ cv.frame_count >= cv.total                   \* ret False: break
          /\ cv' = [cv EXCEPT !.pc = "release",
                              !.usedAfterRelease = @ \/ cv.cap = "released"]
    /\ UNCHANGED <<sr, up, req, fs, foreign>>

\* Line 89.
CvRelease ==
    /\ cv.pc = "release"
    /\ cv' = [cv EXCEPT !.cap = "released", !.pc = "check",
                        !.usedAfterRelease = @ \/ cv.cap = "released"]
    /\ UNCHANGED <<sr, up, req, fs, foreign>>

\* Lines 91-92.
CvCheck ==
    /\ cv.pc = "check"
    /\ cv' = IF cv.frames = <<>>
             THEN [cv EXCEPT !.ret = "no_frames", !.pc = "finally"]
             ELSE [cv EXCEPT !.pc = "save"]
    /\ UNCHANGED <<sr, up, req, fs, foreign>>

\* Lines 95-106: frames[0].save(output_path, ...) writes a GIF of some
\* size and the call returns True with no look at that size; a save that
\* raises may leave a partial file at output_path.
CvSave ==
    /\ cv.pc = "save"
    /\ \/ \E size \in 1..MaxGifSize :
             cv' = [cv EXCEPT !.gif = "complete", !.gif_size = size,
                              !.saves = @ + 1, !.ret = "ok", !.pc = "finally"]
       \/ \E o \in {"none", "partial"} :
             cv' = [cv EXCEPT !.gif = o, !.saves = @ + 1, !.raised = TRUE,
                              !.pc = "except"]
    /\ UNCHANGED <<sr, up, req, fs, foreign>>

\* A plausible slip: the except clause reporting success.
CvExceptReturnsTrue ==
    /\ cv.pc = "except"
    /\ cv' = [cv EXCEPT !.ret = "ok", !.pc = "finally"]
    /\ UNCHANGED <<sr, up, req, fs, foreign>>

\* Lines 107-108.
CvExcept ==
    /\ cv.pc = "except"
    /\ cv' = [cv EXCEPT !.ret = "error", !.pc = "finally"]
    /\ UNCHANGED <<sr, up, req, fs, foreign>>

\* A plausible slip: a finally block that does not release.
CvFinallyNoRelease ==
    /\ cv.pc = "finally"
    /\ cv' = [cv EXCEPT !.pc = "done"]
    /\ UNCHANGED <<sr, up, req, fs, foreign>>

\* Lines 109-112: release when cap is bound and still opened.
CvFinally ==
    /\ cv.pc = "finally"
    /\ cv' = [cv EXCEPT !.cap = IF cv.cap = "open" THEN "released" ELSE @,
                        !.pc = "done"]
    /\ UNCHANGED <<sr, up, req, fs, foreign>>

\* The caller has (success, message); the next call starts afresh.
CvReturn ==
    /\ cv.pc = "done"
    /\ cv' = CvIdle
    /\ UNCHANGED <<sr, up, req, fs, foreign>>

\* What a finished call hands back, as the handler sees it: the return and
\* whether output_path holds a file.
CvResult == [ret |-> cv.ret, gif |-> cv.gif # "none"]

(***************************************************************************)
(* ImageService.upload_image(file)                image_service.py 10-36   *)
(***************************************************************************)
\* requests.post either raises (connection error, timeout) or returns a
\* response with a status code and a body.
HttpStatuses == {200, 400, 503}

\* response.json(): raises ("invalid"), or gives a list, or gives an object
\* whose keys status, data and error are absent or hold these values.
\*   status: 0 (absent), 200, 400
\*   data:  "scalar" (not a dict), "nourl" (a dict without url),
\*          "null" (url is null), "url" (url is a string)
\*   error: "scalar" (not a dict), "nomessage" (a dict without message),
\*          "null" (message is null), "message" (message is a string)
Bodies ==
    {[json |-> "invalid"], [json |-> "list"]} \cup
    [json : {"object"}, status : {0, 200, 400},
     data : {"absent", "scalar", "nourl", "null", "url"},
     error : {"absent", "scalar", "nomessage", "null", "message"}]

UpIdle == [pc |-> "idle"]

Returned(success, url, error) ==
    [raised |-> FALSE, success |-> success, url |-> url, error |-> error]

\* Lines 34-36: every Exception is logged and turned into a failure dict.
ExceptReturn == Returned(FALSE, "None", "An error occurred")

\* Lines 18-36 once requests.post has returned or raised.
UploadImage(net, http, body) ==
    IF net = "error" THEN ExceptReturn                    \* line 24 raises
    ELSE IF http = 200 /\ body.json # "object" THEN ExceptReturn
                                                   \* line 27: json() or .get
    ELSE IF http = 200 /\ body.status = 200
    THEN CASE body.data \in {"absent", "scalar", "nourl"} -> ExceptReturn
                                                   \* line 28: KeyError, TypeError
           [] body.data = "null" -> Returned(TRUE, "None", "None")
           [] OTHER -> Returned(TRUE, "url", "None")        \* line 29
    ELSE IF body.json # "object" THEN ExceptReturn        \* line 31: json(), .get
    ELSE CASE body.error = "scalar" -> ExceptReturn       \* line 31: .get on str
           [] body.error \in {"absent", "nomessage"} ->
                Returned(FALSE, "None", "Unknown error")
           [] body.error = "null" -> Returned(FALSE, "None", "None")
           [] OTHER -> Returned(FALSE, "None", "message") \* line 33

\* Line 24: the collaborator answers, or the call raises.
UpPost ==
    /\ up.pc = "idle"
    /\ \/ \E net \in {"error"} :
             up' = [pc |-> "posted", net |-> net, http |-> 0,
                    body |-> [json |-> "invalid"]]
       \/ \E http \in HttpStatuses, body \in Bodies :
             up' = [pc |-> "posted", net |-> "ok", http |-> http, body |-> body]
    /\ UNCHANGED <<sr, cv, req, fs, foreign>>

\* Lines 26-36.
UpCheck ==
    /\ up.pc = "posted"
    /\ up' = [up EXCEPT !.pc = "returned"] @@
             [result |-> UploadImage(up.net, up.http, up.body)]
    /\ UNCHANGED <<sr, cv, req, fs, foreign>>

\* The caller has the dict; the service keeps no state between calls.
UpReturn ==
    /\ up.pc = "returned"
    /\ up' = UpIdle
    /\ UNCHANGED <<sr, cv, req, fs, foreign>>

(***************************************************************************)
(* VideoToGif.post                                          app.py 120-165 *)
(***************************************************************************)
NumRequests == 2         \* requests in flight together

Reqs == 1..NumRequests

\* Line 130: uuid4() returns a value no other call returns. Which value is
\* immaterial (the handler only builds paths from it), so the value drawn
\* while serving request r is named r.
Uuid4(r) == r

\* request.files: no 'video' field, or a file with the name the client sent
\* and a size under or over the ceiling the specification speaks of.
NoVideo == [field |-> FALSE, filename |-> "", big |-> FALSE]
Uploads ==
    {NoVideo} \cup
    [field : {TRUE}, filename : {"", "clip.mp4", "../clip.mp4", "notes.txt"},
     big : {FALSE}] \cup
    [field : {TRUE}, filename : {"../clip.mp4"}, big : {TRUE}]

\* werkzeug's secure_filename on the names above: path separators and
\* leading dots are stripped.
SecureFilename(name) == IF name = "../clip.mp4" THEN "clip.mp4" ELSE name

\* The form fields fps and scale as sent: absent, text that is not a number,
\* or a number.
FpsForms == {"absent", "abc", "0", "10"}
ScaleForms == {"absent", "abc", "-0.5", "0.5"}

\* Line 135: int(request.form.get('fps', 10)) of the forms that parse.
ParsedFps(f) ==
    CASE f = "absent" -> 10
      [] f = "0" -> 0
      [] f = "10" -> 10

\* Line 136: float(request.form.get('scale', 0.5)), in tenths.
ParsedScale(s) ==
    CASE s = "absent" -> 5
      [] s = "-0.5" -> -5
      [] s = "0.5" -> 5

\* A plausible slip: the uuid left out of the upload's name.
InputPathNoUuid(unique_id, filename) == <<"uploads", 0, filename>>

\* Line 131: os.path.join(UPLOAD_FOLDER, f"{unique_id}_{filename}").
InputPath(unique_id, filename) == <<"uploads", unique_id, filename>>

\* Lines 144-145: os.path.join(OUTPUT_FOLDER, f"{unique_id}_output.gif").
OutputPath(unique_id) == <<"outputs", unique_id, "output.gif">>

\* The filesystem is a function from the paths that exist to the request
\* whose bytes they hold.
WriteFile(f, p, r) == [q \in DOMAIN f \cup {p} |-> IF q = p THEN r ELSE f[q]]
RemoveFile(f, p) == [q \in DOMAIN f \ {p} |-> f[q]]
Exists(p) == p \in DOMAIN fs
\* Request r reads, overwrites or deletes at p a file another request wrote.
Touches(r, p) == Exists(p) /\ fs[p] # r

\* safe_remove(path) as the handler calls it: default retries and delay.
HandlerRemove(p, outs) ==
    SafeRemoveRun(SrCall(Exists(p), DefaultRetries, DefaultDelay), outs)
\* What the attempts of one call meet: permission denied some number of
\* times, then (if at all) one other outcome, which ends the call.
RemoveOutcomes(p) ==
    {outs \in [1..DefaultRetries -> OutcomesFor(Exists(p))] :
        \A i \in 1..(DefaultRetries - 1) :
           outs[i] # "EACCES" => outs[i + 1] = outs[i]}

\* What convert_video_to_gif can hand back: the message of its return and
\* whether it left a file at output_path (see CvResult).
ConvertOutcomes ==
    {[ret |-> "ok", gif |-> TRUE], [ret |-> "could_not_open", gif |-> FALSE],
     [ret |-> "no_frames", gif |-> FALSE], [ret |-> "error", gif |-> FALSE],
     [ret |-> "error", gif |-> TRUE]}

\* The message of a failed conversion as the response shows it.
ConvertMessage(ret) == IF ret = "ok" THEN "Conversion successful"
                       ELSE "conversion failed"

ReqIdle ==
    [pc |-> "start", has_video |-> FALSE, big |-> FALSE, filename |-> "",
     unique_id |-> 0,
     fps |-> 10, scale |-> 5, success |-> FALSE, calls |-> 0,
     status |-> 0, message |-> "", cleanupFailed |-> FALSE]

Respond(q, status, message) ==
    [q EXCEPT !.pc = "done", !.status = status, !.message = message]

\* Lines 121-132: the two early returns, then the upload is saved under a
\* fresh uuid.
PostReceive(r) ==
    /\ req[r].pc = "start"
    /\ \E u \in Uploads :
          IF ~u.field
          THEN /\ req' = [req EXCEPT ![r] =
                            Respond(@, 400, "No video file provided")]
               /\ UNCHANGED <<fs, foreign>>
          ELSE IF u.filename = ""
          THEN /\ req' = [req EXCEPT ![r] =
                            Respond([@ EXCEPT !.has_video = TRUE], 400,
                                    "No file selected")]
               /\ UNCHANGED <<fs, foreign>>
          ELSE   LET name == SecureFilename(u.filename)
                     id == Uuid4(r)
                     path == InputPath(id, name)
                 IN  /\ req' = [req EXCEPT ![r] =
                                  [@ EXCEPT !.has_video = TRUE, !.big = u.big,
                                            !.filename = name,
                                            !.unique_id = id, !.pc = "parse"]]
                     /\ fs' = WriteFile(fs, path, r)
                     /\ foreign' = (foreign \/ Touches(r, path))
    /\ UNCHANGED <<sr, cv, up>>

\* Lines 135-141: int() or float() raises out of the handler (the framework
\* answers 500); a non-positive value is answered 400 after a safe_remove
\* whose result is not looked at.
PostValidate(r) ==
    /\ req[r].pc = "parse"
    /\ \E f \in FpsForms, s \in ScaleForms :
          LET q == req[r]
              path == InputPath(q.unique_id, q.filename)
          IN  IF f = "abc" \/ s = "abc"
              THEN /\ req' = [req EXCEPT ![r] =
                                Respond(q, 500, "Internal Server Error")]
                   /\ UNCHANGED <<fs, foreign>>
              ELSE IF ParsedFps(f) <= 0 \/ ParsedScale(s) <= 0
              THEN \E outs \in RemoveOutcomes(path) :
                     LET res == HandlerRemove(path, outs)
                         q2 == [q EXCEPT !.fps = ParsedFps(f),
                                         !.scale = ParsedScale(s),
                                         !.cleanupFailed = (res.ret # "True")]
                     IN  /\ req' = [req EXCEPT ![r] =
                                      IF res.ret = "raise"
                                      THEN Respond(q2, 500, "Internal Server Error")
                                      ELSE Respond(q2, 400,
                                             "FPS and scale must be positive")]
                         /\ fs' = IF res.last = "removed"
                                  THEN RemoveFile(fs, path) ELSE fs
                         /\ foreign' = (foreign \/ Touches(r, path))
              ELSE /\ req' = [req EXCEPT ![r] =
                                [q EXCEPT !.fps = ParsedFps(f),
                                          !.scale = ParsedScale(s),
                                          !.pc = "convert"]]
                   /\ UNCHANGED <<fs, foreign>>
    /\ UNCHANGED <<sr, cv, up>>

\* Lines 144-148: the one call of convert_video_to_gif; it reads input_path
\* and, when it saves, writes output_path.
PostConvert(r) ==
    /\ req[r].pc = "convert"
    /\ LET q == req[r]
           input_path == InputPath(q.unique_id, q.filename)
           output_path == OutputPath(q.unique_id)
       IN  \E c \in ConvertOutcomes :
             /\ Exists(input_path) \/ c.ret \in {"could_not_open", "error"}
             /\ req' = [req EXCEPT ![r] =
                          [q EXCEPT !.success = (c.ret = "ok"),
                                    !.message = ConvertMessage(c.ret),
                                    !.calls = @ + 1,
                                    !.pc = "cleanup_input"]]
             /\ fs' = IF c.gif THEN WriteFile(fs, output_path, r) ELSE fs
             /\ foreign' = (foreign \/ Touches(r, input_path)
                                    \/ (c.gif /\ Touches(r, output_path)))
    /\ UNCHANGED <<sr, cv, up>>

\* Lines 150-155: safe_remove(input_path); False is answered 500, an OSError
\* leaves the handler; then a failed conversion is answered 500.
PostCleanupInput(r) ==
    /\ req[r].pc = "cleanup_input"
    /\ LET q == req[r]
           path == InputPath(q.unique_id, q.filename)
       IN  \E outs \in RemoveOutcomes(path) :
             LET res == HandlerRemove(path, outs)
             IN  /\ req' = [req EXCEPT ![r] =
                              CASE res.ret = "raise" ->
                                     Respond([q EXCEPT !.cleanupFailed = TRUE],
                                             500, "Internal Server Error")
                                [] res.ret = "False" ->
                                     Respond([q EXCEPT !.cleanupFailed = TRUE],
                                             500, "Failed to clean up input file")
                                [] ~q.success -> Respond(q, 500, q.message)
                                [] OTHER -> [q EXCEPT !.pc = "send"]]
                 /\ fs' = IF res.last = "removed"
                          THEN RemoveFile(fs, path) ELSE fs
                 /\ foreign' = (foreign \/ Touches(r, path))
    /\ UNCHANGED <<sr, cv, up>>

\* Lines 158-159: send_file(output_path, ...) opens the file, or raises
\* into the except of line 164.
PostSend(r) ==
    /\ req[r].pc = "send"
    /\ LET q == req[r]
           path == OutputPath(q.unique_id)
       IN  /\ \E o \in {"ok", "raise"} :
                /\ Exists(path) \/ o = "raise"
                /\ req' = [req EXCEPT ![r] =
                             IF o = "raise"
                             THEN Respond(q, 500, "Error sending GIF")
                             ELSE [q EXCEPT !.pc = "cleanup_output"]]
           /\ foreign' = (foreign \/ Touches(r, path))
    /\ UNCHANGED <<sr, cv, up, fs>>

\* Lines 160-165: safe_remove(output_path); False is answered 500, an
\* OSError is caught by the except of line 164; else the GIF is returned.
PostCleanupOutput(r) ==
    /\ req[r].pc = "cleanup_output"
    /\ LET q == req[r]
           path == OutputPath(q.unique_id)
       IN  \E outs \in RemoveOutcomes(path) :
             LET res == HandlerRemove(path, outs)
             IN  /\ req' = [req EXCEPT ![r] =
                              CASE res.ret = "raise" ->
                                     Respond([q EXCEPT !.cleanupFailed = TRUE],
                                             500, "Error sending GIF")
                                [] res.ret = "False" ->
                                     Respond([q EXCEPT !.cleanupFailed = TRUE],
                                             500, "Failed to clean up output file")
                                [] OTHER -> Respond(q, 200, "output.gif")]
                 /\ fs' = IF res.last = "removed"
                          THEN RemoveFile(fs, path) ELSE fs
                 /\ foreign' = (foreign \/ Touches(r, path))
    /\ UNCHANGED <<sr, cv, up>>

(***************************************************************************)
(* Specifications                                                          *)
(***************************************************************************)
Init ==
    /\ sr = SrIdle
    /\ cv = CvIdle
    /\ up = UpIdle
    /\ req = [r \in Reqs |-> ReqIdle]
    /\ fs = <<>>
    /\ foreign = FALSE

NextRemove == SrStart \/ SrAttempt \/ SrReturn
SpecRemove == Init /\ [][NextRemove]_vars
\* A call that is running goes on running: os.remove and time.sleep return.
SpecRemoveFair == SpecRemove /\ WF_vars(SrAttempt)

NextConvert ==
    \/ CvCall \/ CvOpen \/ CvFrameStep \/ CvRead \/ CvRelease \/ CvCheck
    \/ CvSave \/ CvExcept \/ CvFinally \/ CvReturn
SpecConvert == Init /\ [][NextConvert]_vars

NextUpload == UpPost \/ UpCheck \/ UpReturn
SpecUpload == Init /\ [][NextUpload]_vars

Next ==
    \E r \in Reqs :
       \/ PostReceive(r) \/ PostValidate(r) \/ PostConvert(r)
       \/ PostCleanupInput(r) \/ PostSend(r) \/ PostCleanupOutput(r)
Spec == Init /\ [][Next]_vars

(***************************************************************************)
(* Properties                                                              *)
(***************************************************************************)
Saved(r) == req[r].unique_id # 0
Done(r) == req[r].pc = "done"
InputOf(r) == InputPath(req[r].unique_id, req[r].filename)
OutputOf(r) == OutputPath(req[r].unique_id)

\* C1 (as claimed): when the handler has returned for a request whose upload
\* it saved, neither the request's input file nor its output GIF exists.
\* Requests one of whose safe_remove calls was refused by the filesystem are
\* left aside, so that a violation is a file the handler did not try to
\* remove.
NoTempFileLeft ==
    \A r \in Reqs :
       (Done(r) /\ Saved(r) /\ ~req[r].cleanupFailed) =>
          (~Exists(InputOf(r)) /\ ~Exists(OutputOf(r)))

\* C2 (as claimed): for every budget B, a conversion that returns success
\* delivers an artifact of size at most B.
ArtifactWithinBudget ==
    \A B \in 1..MaxGifSize :
       (cv.pc = "done" /\ cv.ret = "ok") => cv.gif_size <= B

\* C2 (amended): a call encodes at most once and never looks at the size of
\* what it wrote: it returns success exactly when that one save completed,
\* and every other return is one of the three failures of lines 59, 92, 108.
SingleEncodeNoSizeCheck ==
    /\ cv.saves <= 1
    /\ cv.ret \in {"none", "ok", "could_not_open", "no_frames", "error"}
    /\ cv.pc = "done" =>
          /\ cv.ret = "ok" <=> (cv.gif = "complete" /\ ~cv.raised)
          /\ cv.ret = "ok" => (cv.saves = 1 /\ cv.gif_size \in 1..MaxGifSize)
          /\ cv.ret = "error" <=> cv.raised

\* C2 witness: a success whose artifact has the largest size there is.
OversizedSuccess ==
    cv.pc = "done" /\ cv.ret = "ok" /\ cv.gif_size = MaxGifSize /\ MaxGifSize > 1

\* The extension of the names the model uploads, and the extensions the
\* specification allows (the handler has no such list).
Extension(name) == IF name = "clip.mp4" THEN "mp4"
                   ELSE IF name = "notes.txt" THEN "txt" ELSE ""
AllowedExtensions == {"mp4", "webm", "mov", "avi"}

Invalid(r) ==
    \/ ~req[r].has_video
    \/ req[r].filename = ""
    \/ Extension(req[r].filename) \notin AllowedExtensions
    \/ req[r].big
    \/ req[r].fps <= 0
    \/ req[r].scale <= 0

\* C3 (as claimed): a request with no video field, an empty filename, an
\* extension outside the allowed set, a file over the ceiling or a
\* non-positive fps or scale is answered 400 and never reaches
\* convert_video_to_gif. Requests whose handler was left by an exception
\* (int() or float() of line 135-136, an OSError out of safe_remove) are left
\* aside here, so that a violation is the validation's own.
InvalidRequestRejected ==
    \A r \in Reqs :
       (req[r].pc # "start" /\ Invalid(r)
           /\ req[r].message # "Internal Server Error") =>
          /\ req[r].calls = 0
          /\ Done(r) => req[r].status = 400

StepComputed == cv.cap \in {"open", "released"} /\ cv.pc # "getfps"

\* C4 (as claimed): the stride is max(1, round(native_fps / fps)), with 30
\* in place of a native rate that is not positive.
StrideIsRounded ==
    StepComputed =>
       cv.frame_step = Max(1, PyRound(OriginalFps(cv.native)[1],
                                      OriginalFps(cv.native)[2] * cv.fps))

\* C4 (amended): the stride is max(1, floor(native_fps / fps)), with 30 in
\* place of a native rate that is not positive: the largest integer s with
\* s * fps <= native_fps, or 1 when there is none.
StrideIsTruncated ==
    StepComputed =>
       LET num == cv.original_fps[1]
           den == cv.original_fps[2]
           s == cv.frame_step
       IN  /\ cv.original_fps = (IF cv.native[1] > 0 THEN cv.native ELSE <<30, 1>>)
           /\ s >= 1
           /\ s > 1 => s * cv.fps * den <= num
           /\ (s + 1) * cv.fps * den > num

\* C4 witness: 30 fps sampled at 8: 3.75 truncates to 3 and rounds to 4.
StrideTruncatedCase ==
    /\ StepComputed /\ cv.native = <<30, 1>> /\ cv.fps = 8 /\ cv.frame_step = 3

CeilDiv(n, s) == (n + s - 1) \div s
\* The indices 0, s, 2s, ... below n, in order.
EveryStrideBelow(n, s) == [k \in 1..CeilDiv(n, s) |-> (k - 1) * s]
LoopCompleted ==
    \/ cv.pc \in {"release", "check", "save"}
    \/ cv.pc \in {"finally", "done"} /\ cv.cap = "released" /\ ~cv.raised

\* C5: after any number of decoded frames the emitted sequence is the source
\* indices 0, S, 2S, ... below that number, in source order; once the loop
\* has run to the end of a source of N frames it holds ceil(N/S) frames.
SamplingEmitsEveryStride ==
    StepComputed =>
       /\ cv.frames = EveryStrideBelow(cv.frame_count, cv.frame_step)
       /\ LoopCompleted =>
             /\ cv.frame_count = cv.total
             /\ Len(cv.frames) = CeilDiv(cv.total, cv.frame_step)

\* C5 witness: N = k*S + 1 with S = 3, N = 4: frames 0 and 3.
SamplingBoundaryCase ==
    /\ cv.pc = "check" /\ cv.total = 4 /\ cv.frame_step = 3
    /\ cv.frames = <<0, 3>>

\* C6: once the function has returned the capture is not open, whatever the
\* exit path, and no read, get or release is made on a released capture.
HandleReleased ==
    /\ ~cv.usedAfterRelease
    /\ cv.pc = "done" => cv.cap # "open"

\* C6 witness: an exception in the middle of decoding, capture released by
\* the finally block.
ReleasedAfterException ==
    /\ cv.pc = "done" /\ cv.raised /\ cv.cap = "released"
    /\ cv.frame_count < cv.total /\ cv.frame_count > 0

FailureOutcome ==
    \/ up.net = "error"
    \/ up.http # 200
    \/ up.body.json # "object"
    \/ up.body.status # 200
    \/ up.body.data \in {"absent", "scalar", "nourl"}

\* C7 (as claimed): upload_image never raises; every failing outcome of the
\* collaborator gives success False, url None and an error that is not None;
\* success True comes with a url and only when both statuses are 200.
UploadTotalAndMapped ==
    up.pc = "returned" =>
       /\ ~up.result.raised
       /\ FailureOutcome =>
             /\ ~up.result.success
             /\ up.result.url = "None"
             /\ up.result.error # "None"
       /\ up.result.success =>
             /\ up.net = "ok" /\ up.http = 200 /\ up.body.status = 200
             /\ up.result.url # "None"

\* C8: requests that have saved an upload have disjoint paths, every file
\* at a request's path holds that request's bytes, and no request has read,
\* overwritten or deleted a file another request wrote.
RequestsIsolated ==
    /\ ~foreign
    /\ \A r1, r2 \in Reqs :
          (r1 # r2 /\ Saved(r1) /\ Saved(r2)) =>
             {InputOf(r1), OutputOf(r1)} \cap {InputOf(r2), OutputOf(r2)} = {}
    /\ \A r \in Reqs :
          Saved(r) =>
             \A p \in {InputOf(r), OutputOf(r)} : Exists(p) => fs[p] = r

\* C8 witness: two requests that uploaded the same filename, both past
\* conversion with their input and output files on disk.
SameNameInFlight ==
    \E r1, r2 \in Reqs :
       /\ r1 # r2
       /\ req[r1].filename = "clip.mp4" /\ req[r2].filename = "clip.mp4"
       /\ req[r1].pc = "cleanup_input" /\ req[r2].pc = "cleanup_input"
       /\ Exists(InputOf(r1)) /\ Exists(InputOf(r2))
       /\ Exists(OutputOf(r1)) /\ Exists(OutputOf(r2))

\* C9 (as claimed): when a safe_remove the handler attempted returned False
\* or raised, the response is one of the two cleanup-failure errors.
CleanupFailureReported ==
    \A r \in Reqs :
       (Done(r) /\ req[r].cleanupFailed) =>
          /\ req[r].status = 500
          /\ req[r].message \in {"Failed to clean up input file",
                                 "Failed to clean up output file"}

\* The bookkeeping of a call: at most `retries` attempts; True at the first
\* attempt that finds the file absent or removes it, False only after
\* exactly `retries` permission-denied attempts, any other OSError leaves at
\* once; each failed attempt but the last of the range is followed by one
\* sleep of `delay`.
SafeRemoveAttempts ==
    /\ sr.attempts <= sr.retries
    /\ sr.ret = "running" =>
          (sr.attempts = sr.eacces /\ (sr.attempts > 0 => sr.attempt < sr.retries))
    /\ sr.ret = "True" =>
          (sr.last \in {"absent", "removed"} /\ sr.attempts = sr.eacces + 1)
    /\ sr.ret = "False" => (sr.eacces = sr.retries /\ sr.attempts = sr.retries)
    /\ sr.ret = "raise" => (sr.last = "EOTHER" /\ sr.attempts = sr.eacces + 1)
    /\ sr.sleeps = Min(sr.eacces, Max(0, sr.retries - 1))
    /\ sr.slept = sr.sleeps * sr.delay

\* C10: every call of safe_remove ends (returns True or False, or raises),
\* and at every moment its attempts, result and sleeps are as
\* SafeRemoveAttempts says: at most `retries` attempts, True at the first
\* absent or removed, False only after `retries` permission-denied attempts,
\* no sleep after the last attempt, another OSError raised at once.
SafeRemoveBounded ==
    /\ []SafeRemoveAttempts
    /\ (sr.ret = "running") ~> (sr.ret # "running")

\* C10 witness: three permission-denied attempts, two sleeps, False.
ThreeDeniedAttempts ==
    /\ sr.ret = "False" /\ sr.retries = 3 /\ sr.eacces = 3 /\ sr.sleeps = 2
    /\ sr.delay = 1

=============================================================================
